---- MODULE Spec2Model ----
(***************************************************************************)
(* Service assembly of the Robonomics node (bin/node/cli/src/service.rs).  *)
(*                                                                         *)
(* The macros new_full_start!, new_full! and new_light! are modelled as a  *)
(* step machine: one action per builder call or statement group, in source *)
(* order.  Every `?` of the source is a point where the called library may *)
(* return an error; the outcome is drawn nondeterministically.  Every      *)
(* Option handed over by the service builder (the select chain, the light  *)
(* fetcher) is drawn from {None, Some}.                                    *)
(***************************************************************************)
EXTENDS Naturals, Sequences, FiniteSets

VARIABLES
    entry,            \* which constructor runs: "new_full" or "new_light"
    role,             \* $config.role
    force_authoring,  \* $config.force_authoring
    disable_grandpa,  \* $config.disable_grandpa
    ros_feature,      \* cfg(feature = "ros"), fixed at build time
    pc,               \* position in the macro
    select_chain,     \* the builder's select chain
    transaction_pool, \* the builder's transaction pool
    import_queue,     \* the builder's import queue
    import_setup,     \* new_full_start!'s `import_setup`
    taken,            \* new_full!'s (block_import, grandpa_link, babe_link)
    fprb,             \* the light finality proof request builder
    finality_proof_provider,
    babe_params,      \* the BabeParams handed to start_babe
    authority_discovery, \* what AuthorityDiscovery::new was given
    grandpa_config,   \* the sc_finality_grandpa::Config
    disabled_grandpa_setup, \* setup_disabled_grandpa was called
    ros,              \* state of the ROS bridge
    tasks,            \* names given to spawn_task / spawn_essential_task
    keystore_holders, \* components handed service.keystore()
    log,              \* log::warn! lines
    returned,         \* "none", "Ok" or "Err"
    error             \* the error returned, "none" if none

vars == <<entry, role, force_authoring, disable_grandpa, ros_feature, pc,
          select_chain, transaction_pool, import_queue, import_setup, taken,
          fprb, finality_proof_provider, babe_params, authority_discovery,
          grandpa_config, disabled_grandpa_setup, ros, tasks,
          keystore_holders, log, returned, error>>

\* sc_service::config::Role
Roles == {"Authority", "Sentry", "Full", "Light"}

Entries == {"new_full", "new_light"}

\* Option<T>
None == [tag |-> "None"]

Some(x) == [tag |-> "Some", value |-> x]

\* gossip_duration: Duration::from_millis(333)
GossipDurationMs == 333

\* justification_period: 512
JustificationPeriod == 512

\* The block import chain built in with_import_queue: the BABE block import
\* wraps the GRANDPA block import, which wraps the client.
grandpa_block_import == <<"grandpa", "client">>

babe_block_import == <<"babe">> \o grandpa_block_import

\* The chain built in new_light!'s with_import_queue_and_fprb.
light_grandpa_block_import == <<"grandpa-light", "client">>

light_babe_block_import == <<"babe">> \o light_grandpa_block_import

Init ==
    /\ entry \in Entries
    /\ role \in Roles
    /\ force_authoring \in BOOLEAN
    /\ disable_grandpa \in BOOLEAN
    /\ ros_feature \in BOOLEAN
    /\ pc = "start"
    /\ select_chain = None
    /\ transaction_pool = None
    /\ import_queue = None
    /\ import_setup = None
    /\ taken = None
    /\ fprb = None
    /\ finality_proof_provider = FALSE
    /\ babe_params = None
    /\ authority_discovery = None
    /\ grandpa_config = None
    /\ disabled_grandpa_setup = FALSE
    /\ ros = "none"
    /\ tasks = {}
    /\ keystore_holders = {}
    /\ log = {}
    /\ returned = "none"
    /\ error = "none"

\* A `?` on an Err: the macro returns the error.
Fail(e) ==
    /\ pc' = "done"
    /\ returned' = "Err"
    /\ error' = e

Goto(p) ==
    /\ pc' = p
    /\ UNCHANGED <<returned, error>>

\* A panic (expect on None, unreachable!): the macro never returns.
Panic(msg) ==
    /\ pc' = "panicked"
    /\ error' = msg
    /\ UNCHANGED returned

config == <<entry, role, force_authoring, disable_grandpa, ros_feature>>

builder == <<select_chain, transaction_pool, import_queue, import_setup, taken,
             fprb, finality_proof_provider>>

consensus == <<babe_params, authority_discovery, grandpa_config,
               disabled_grandpa_setup, ros>>

effects == <<tasks, keystore_holders, log>>

(***************************************************************************)
(* new_full_start!                                                         *)
(***************************************************************************)

\* ServiceBuilder::new_full::<Block, $runtime, $executor>($config)?
FullBuilderNew ==
    /\ pc = "start"
    /\ entry = "new_full"
    /\ \E ok \in BOOLEAN :
         IF ok THEN Goto("with_select_chain") ELSE Fail("new_full")
    /\ UNCHANGED <<config, builder, consensus, effects>>

\* .with_select_chain(|_config, backend| Ok(LongestChain::new(backend.clone())))?
WithSelectChain ==
    /\ pc = "with_select_chain"
    /\ \E ok \in BOOLEAN :
         IF ok
         THEN /\ select_chain' = Some("LongestChain")
              /\ Goto("with_transaction_pool")
         ELSE /\ UNCHANGED select_chain
              /\ Fail("with_select_chain")
    /\ UNCHANGED <<config, transaction_pool, import_queue, import_setup, taken,
                   fprb, finality_proof_provider, consensus, effects>>

\* .with_transaction_pool(|config, client, _fetcher, prometheus_registry| ...)?
WithTransactionPool ==
    /\ pc = "with_transaction_pool"
    /\ \E ok \in BOOLEAN :
         IF ok
         THEN /\ transaction_pool' = Some("FullChainApi")
              /\ Goto("with_import_queue")
         ELSE /\ UNCHANGED transaction_pool
              /\ Fail("with_transaction_pool")
    /\ UNCHANGED <<config, select_chain, import_queue, import_setup, taken,
                   fprb, finality_proof_provider, consensus, effects>>

\* The library calls of the import queue closure that end in `?`.
ImportQueueCalls ==
    {"grandpa_block_import", "babe_config", "babe_block_import", "import_queue"}

\* The closure given to with_import_queue.  `handed` is the Option the builder
\* hands over as `select_chain`; `failing` names the first library call that
\* returns an error, "none" when all succeed.
ImportQueueClosure(handed, failing) ==
    IF handed = None
    THEN [err |-> "SelectChainRequired", queue |-> None, setup |-> None]
    ELSE IF failing # "none"
    THEN [err |-> failing, queue |-> None, setup |-> None]
    ELSE [err |-> "none",
          queue |-> Some([block_import |-> babe_block_import,
                          justification_import |-> Some(grandpa_block_import),
                          finality_proof_import |-> None]),
          setup |-> Some([block_import |-> babe_block_import,
                          grandpa_link |-> "grandpa_link",
                          babe_link |-> "babe_link"])]

\* .with_import_queue(...)?
WithImportQueue ==
    /\ pc = "with_import_queue"
    /\ \E handed \in {None, select_chain},
          failing \in ImportQueueCalls \cup {"none"} :
         LET r == ImportQueueClosure(handed, failing) IN
         IF r.err = "none"
         THEN /\ import_queue' = r.queue
              /\ import_setup' = r.setup
              /\ Goto("with_finality_proof_provider")
         ELSE /\ UNCHANGED <<import_queue, import_setup>>
              /\ Fail(r.err)
    /\ UNCHANGED <<config, select_chain, transaction_pool, taken, fprb,
                   finality_proof_provider, consensus, effects>>

(***************************************************************************)
(* new_full!                                                               *)
(***************************************************************************)

\* builder.with_finality_proof_provider(|client, backend| ...)?
WithFinalityProofProvider ==
    /\ pc = "with_finality_proof_provider"
    /\ \E ok \in BOOLEAN :
         IF ok
         THEN /\ finality_proof_provider' = TRUE
              /\ Goto("build")
         ELSE /\ UNCHANGED finality_proof_provider
              /\ Fail("with_finality_proof_provider")
    /\ UNCHANGED <<config, select_chain, transaction_pool, import_queue,
                   import_setup, taken, fprb, consensus, effects>>

\* .build()?
Build ==
    /\ pc = "build"
    /\ \E ok \in BOOLEAN :
         IF ok THEN Goto("take_import_setup") ELSE Fail("build")
    /\ UNCHANGED <<config, builder, consensus, effects>>

\* import_setup.take().expect("Link Half and Block Import are present ...")
TakeImportSetup ==
    /\ pc = "take_import_setup"
    /\ IF import_setup = None
       THEN /\ Panic("Link Half and Block Import are present for Full Services or setup failed before. qed")
            /\ UNCHANGED <<import_setup, taken>>
       ELSE /\ taken' = Some(import_setup.value)
            /\ import_setup' = None
            /\ Goto("babe")
    /\ UNCHANGED <<config, select_chain, transaction_pool, import_queue, fprb,
                   finality_proof_provider, consensus, effects>>

\* Mutant: sentries author as well.
AuthoringEnabled_Mut(r) == r \in {"Authority", "Sentry"}

\* `if let Role::Authority { .. } = &role`
AuthoringEnabled(r) == r = "Authority"

\* Mutant: the proposer is spawned although no select chain was handed over.
BabeBranch_Mut(r, force, block_import, handed, babe_ok) ==
    IF ~AuthoringEnabled(r)
    THEN [err |-> "none", params |-> None, spawn |-> FALSE]
    ELSE IF handed = None
    THEN [err |-> "SelectChainRequired", params |-> None, spawn |-> TRUE]
    ELSE LET params == Some([keystore |-> TRUE,
                             select_chain |-> handed.value,
                             block_import |-> block_import,
                             force_authoring |-> force,
                             babe_link |-> "babe_link"])
         IN IF babe_ok
            THEN [err |-> "none", params |-> params, spawn |-> TRUE]
            ELSE [err |-> "start_babe", params |-> params, spawn |-> FALSE]

\* The block production branch.  `handed` is the Option returned by
\* service.select_chain(); `babe_ok` is whether start_babe returns Ok.
\* `params` are the BabeParams built, `spawn` whether "babe-proposer" is
\* spawned, `err` the error returned by `?`.
BabeBranch(r, force, block_import, handed, babe_ok) ==
    IF ~AuthoringEnabled(r)
    THEN [err |-> "none", params |-> None, spawn |-> FALSE]
    ELSE IF handed = None
    THEN [err |-> "SelectChainRequired", params |-> None, spawn |-> FALSE]
    ELSE LET params == Some([keystore |-> TRUE,
                             select_chain |-> handed.value,
                             block_import |-> block_import,
                             force_authoring |-> force,
                             babe_link |-> "babe_link"])
         IN IF babe_ok
            THEN [err |-> "none", params |-> params, spawn |-> TRUE]
            ELSE [err |-> "start_babe", params |-> params, spawn |-> FALSE]

StartBabe ==
    /\ pc = "babe"
    /\ \E handed \in {None, select_chain}, babe_ok \in BOOLEAN :
         LET r == BabeBranch(role, force_authoring, taken.value.block_import,
                             handed, babe_ok)
         IN /\ babe_params' = r.params
            /\ tasks' = IF r.spawn THEN tasks \cup {"babe-proposer"} ELSE tasks
            /\ keystore_holders' = IF r.params # None
                                   THEN keystore_holders \cup {"babe"}
                                   ELSE keystore_holders
            /\ IF r.err = "none" THEN Goto("authority_discovery") ELSE Fail(r.err)
    /\ UNCHANGED <<config, builder, authority_discovery, grandpa_config,
                   disabled_grandpa_setup, ros, log>>

\* Mutant: every role of a full service runs authority discovery.
RunsAuthorityDiscovery_Mut(r) == r \in {"Authority", "Sentry", "Full"}

\* matches!(role, Role::Authority{..} | Role::Sentry {..})
RunsAuthorityDiscovery(r) == r \in {"Authority", "Sentry"}

\* The inner `match role`: (sentries, authority_discovery_role), or the
\* unreachable! arm.
AuthorityDiscoveryRole(r) ==
    CASE r = "Authority" ->
           [sentries |-> "sentry_nodes", role |-> "Authority", keystore |-> TRUE]
      [] r = "Sentry" ->
           [sentries |-> "empty", role |-> "Sentry", keystore |-> FALSE]
      [] OTHER ->
           [sentries |-> "empty", role |-> "unreachable", keystore |-> FALSE]

SpawnAuthorityDiscovery ==
    /\ pc = "authority_discovery"
    /\ IF RunsAuthorityDiscovery(role)
       THEN LET a == AuthorityDiscoveryRole(role) IN
            IF a.role = "unreachable"
            THEN /\ Panic("Due to outer matches! constraint; qed.")
                 /\ UNCHANGED <<authority_discovery, tasks, keystore_holders>>
            ELSE /\ authority_discovery' = Some(a)
                 /\ tasks' = tasks \cup {"authority-discovery"}
                 /\ keystore_holders' = IF a.keystore
                                        THEN keystore_holders \cup {"authority-discovery"}
                                        ELSE keystore_holders
                 /\ Goto("grandpa_config")
       ELSE /\ UNCHANGED <<authority_discovery, tasks, keystore_holders>>
            /\ Goto("grandpa_config")
    /\ UNCHANGED <<config, builder, babe_params, grandpa_config,
                   disabled_grandpa_setup, ros, log>>

\* role.is_authority()
is_authority(r) == r = "Authority"

\* role.is_network_authority()
is_network_authority(r) == r \in {"Authority", "Sentry"}

\* let config = sc_finality_grandpa::Config { ... }
GrandpaConfigOf(r) ==
    [gossip_duration |-> GossipDurationMs,
     justification_period |-> JustificationPeriod,
     name |-> "Some(name)",
     observer_enabled |-> FALSE,
     keystore |-> IF is_authority(r) THEN Some("keystore") ELSE None,
     is_authority |-> is_network_authority(r)]

BuildGrandpaConfig ==
    /\ pc = "grandpa_config"
    /\ grandpa_config' = Some(GrandpaConfigOf(role))
    /\ keystore_holders' = IF GrandpaConfigOf(role).keystore # None
                           THEN keystore_holders \cup {"grandpa"}
                           ELSE keystore_holders
    /\ Goto("grandpa")
    /\ UNCHANGED <<config, builder, babe_params, authority_discovery,
                   disabled_grandpa_setup, ros, tasks, log>>

\* Mutant: the negation is lost.
enable_grandpa_Mut(disable) == disable

\* let enable_grandpa = !disable_grandpa;
enable_grandpa(disable) == ~disable

\* if enable_grandpa { run_grandpa_voter(..)? } else { setup_disabled_grandpa(..)? }
StartGrandpa ==
    /\ pc = "grandpa"
    /\ \E ok \in BOOLEAN :
         IF enable_grandpa(disable_grandpa)
         THEN /\ UNCHANGED disabled_grandpa_setup
              /\ IF ok
                 THEN /\ tasks' = tasks \cup {"grandpa-voter"}
                      /\ Goto("ros")
                 ELSE /\ UNCHANGED tasks
                      /\ Fail("run_grandpa_voter")
         ELSE /\ UNCHANGED tasks
              /\ IF ok
                 THEN /\ disabled_grandpa_setup' = TRUE
                      /\ Goto("ros")
                 ELSE /\ UNCHANGED disabled_grandpa_setup
                      /\ Fail("setup_disabled_grandpa")
    /\ UNCHANGED <<config, builder, babe_params, authority_discovery,
                   grandpa_config, ros, keystore_holders, log>>

\* The cfg(feature = "ros") block.  `init_ok` is whether
\* rosrust::try_init_with_options is Ok, `start_ok` whether
\* substrate_ros_api::start is Ok.
RosBlock(feature, init_ok, start_ok) ==
    IF ~feature
    THEN [ros |-> "off", err |-> "none", spawn |-> FALSE, keystore |-> FALSE,
          warn |-> {}]
    ELSE IF ~init_ok
    THEN [ros |-> "init_failed", err |-> "none", spawn |-> FALSE,
          keystore |-> FALSE,
          warn |-> {"ROS integration disabled because of initialization failure"}]
    ELSE IF ~start_ok
    THEN [ros |-> "start_failed", err |-> "Substrate ROS", spawn |-> FALSE,
          keystore |-> TRUE, warn |-> {}]
    ELSE [ros |-> "running", err |-> "none", spawn |-> TRUE, keystore |-> TRUE,
          warn |-> {}]

StartRos ==
    /\ pc = "ros"
    /\ \E init_ok \in BOOLEAN, start_ok \in BOOLEAN :
         LET r == RosBlock(ros_feature, init_ok, start_ok) IN
         /\ ros' = r.ros
         /\ tasks' = IF r.spawn THEN tasks \cup {"substrate-ros"} ELSE tasks
         /\ keystore_holders' = IF r.keystore
                                THEN keystore_holders \cup {"substrate-ros"}
                                ELSE keystore_holders
         /\ log' = log \cup r.warn
         /\ IF r.err = "none" THEN Goto("return") ELSE Fail(r.err)
    /\ UNCHANGED <<config, builder, babe_params, authority_discovery,
                   grandpa_config, disabled_grandpa_setup>>

\* Ok(service)
ReturnService ==
    /\ pc = "return"
    /\ pc' = "done"
    /\ returned' = "Ok"
    /\ UNCHANGED <<error, config, builder, consensus, effects>>

(***************************************************************************)
(* new_light!                                                              *)
(***************************************************************************)

\* ServiceBuilder::new_light::<Block, $runtime, $executor>($config)?
LightBuilderNew ==
    /\ pc = "start"
    /\ entry = "new_light"
    /\ \E ok \in BOOLEAN :
         IF ok THEN Goto("light_with_select_chain") ELSE Fail("new_light")
    /\ UNCHANGED <<config, builder, consensus, effects>>

\* .with_select_chain(|_, backend| Ok(LongestChain::new(backend.clone())))?
LightWithSelectChain ==
    /\ pc = "light_with_select_chain"
    /\ \E ok \in BOOLEAN :
         IF ok
         THEN /\ select_chain' = Some("LongestChain")
              /\ Goto("light_with_transaction_pool")
         ELSE /\ UNCHANGED select_chain
              /\ Fail("with_select_chain")
    /\ UNCHANGED <<config, transaction_pool, import_queue, import_setup, taken,
                   fprb, finality_proof_provider, consensus, effects>>

\* .with_transaction_pool(|config, client, fetcher, prometheus_registry| ...)?
\* `fetcher` is the Option the builder hands over.
LightWithTransactionPool ==
    /\ pc = "light_with_transaction_pool"
    /\ \E fetcher \in {None, Some("fetcher")}, ok \in BOOLEAN :
         IF fetcher = None
         THEN /\ UNCHANGED transaction_pool
              /\ Fail("Trying to start light transaction pool without active fetcher")
         ELSE IF ok
         THEN /\ transaction_pool' = Some("LightChainApi")
              /\ Goto("light_with_import_queue_and_fprb")
         ELSE /\ UNCHANGED transaction_pool
              /\ Fail("with_transaction_pool")
    /\ UNCHANGED <<config, select_chain, import_queue, import_setup, taken,
                   fprb, finality_proof_provider, consensus, effects>>

\* The library calls of the light import queue closure that end in `?`.
LightImportQueueCalls ==
    {"light_block_import", "babe_config", "babe_block_import", "import_queue"}

\* The closure given to with_import_queue_and_fprb.
LightImportQueueClosure(fetcher, failing) ==
    IF fetcher = None
    THEN [err |-> "Trying to start light import queue without active fetch checker",
          queue |-> None, fprb |-> None]
    ELSE IF failing # "none"
    THEN [err |-> failing, queue |-> None, fprb |-> None]
    ELSE [err |-> "none",
          queue |-> Some([block_import |-> light_babe_block_import,
                          justification_import |-> None,
                          finality_proof_import |-> Some(light_grandpa_block_import)]),
          fprb |-> Some("finality_proof_request_builder")]

\* .with_import_queue_and_fprb(...)?
LightWithImportQueueAndFprb ==
    /\ pc = "light_with_import_queue_and_fprb"
    /\ \E fetcher \in {None, Some("fetcher")},
          failing \in LightImportQueueCalls \cup {"none"} :
         LET r == LightImportQueueClosure(fetcher, failing) IN
         IF r.err = "none"
         THEN /\ import_queue' = r.queue
              /\ fprb' = r.fprb
              /\ Goto("light_with_finality_proof_provider")
         ELSE /\ UNCHANGED <<import_queue, fprb>>
              /\ Fail(r.err)
    /\ UNCHANGED <<config, select_chain, transaction_pool, import_setup, taken,
                   finality_proof_provider, consensus, effects>>

\* .with_finality_proof_provider(|client, backend| ...)?
LightWithFinalityProofProvider ==
    /\ pc = "light_with_finality_proof_provider"
    /\ \E ok \in BOOLEAN :
         IF ok
         THEN /\ finality_proof_provider' = TRUE
              /\ Goto("light_build")
         ELSE /\ UNCHANGED finality_proof_provider
              /\ Fail("with_finality_proof_provider")
    /\ UNCHANGED <<config, select_chain, transaction_pool, import_queue,
                   import_setup, taken, fprb, consensus, effects>>

\* Mutant: the light service starts the full voter.
LightSpawned_Mut == {"grandpa-voter"}

\* The tasks new_light! spawns: it calls neither spawn_task nor
\* spawn_essential_task.
LightSpawned == {}

\* .build(), whose Result is the macro's value
LightBuild ==
    /\ pc = "light_build"
    /\ \E ok \in BOOLEAN :
         IF ok
         THEN /\ pc' = "done"
              /\ returned' = "Ok"
              /\ UNCHANGED error
         ELSE Fail("build")
    /\ tasks' = tasks \cup LightSpawned
    /\ UNCHANGED <<config, builder, consensus, keystore_holders, log>>

Next ==
    \/ FullBuilderNew
    \/ WithSelectChain
    \/ WithTransactionPool
    \/ WithImportQueue
    \/ WithFinalityProofProvider
    \/ Build
    \/ TakeImportSetup
    \/ StartBabe
    \/ SpawnAuthorityDiscovery
    \/ BuildGrandpaConfig
    \/ StartGrandpa
    \/ StartRos
    \/ ReturnService
    \/ LightBuilderNew
    \/ LightWithSelectChain
    \/ LightWithTransactionPool
    \/ LightWithImportQueueAndFprb
    \/ LightWithFinalityProofProvider
    \/ LightBuild

Spec == Init /\ [][Next]_vars

(***************************************************************************)
(* Properties                                                              *)
(***************************************************************************)

ConsensusTasks ==
    {"babe-proposer", "authority-discovery", "grandpa-voter", "substrate-ros"}

\* The block import chain handed to block production is the chain the import
\* queue was built with: BABE wrapping GRANDPA wrapping the client.
SameBlockImportChain ==
    babe_params # None =>
        /\ import_queue # None
        /\ babe_params.value.block_import = import_queue.value.block_import
        /\ babe_params.value.block_import = <<"babe", "grandpa", "client">>

\* C1: "babe-proposer" is started only by new_full with role Authority, never
\* for Sentry or Full (whatever force_authoring is) and never by new_light;
\* a full service returned for an Authority has it started.
C1_ProposerIffAuthority ==
    /\ "babe-proposer" \in tasks => entry = "new_full" /\ role = "Authority"
    /\ babe_params # None => entry = "new_full" /\ role = "Authority"
    /\ (returned = "Ok" /\ entry = "new_full" /\ role = "Authority")
           => "babe-proposer" \in tasks

C1_Witness ==
    /\ returned = "Ok"
    /\ entry = "new_full"
    /\ role = "Authority"
    /\ "babe-proposer" \in tasks

\* C4: "authority-discovery" is started only by new_full with role Authority
\* or Sentry; a full service returned for either role has it started; the
\* inner match never reaches unreachable!.
C4_AuthorityDiscoveryIffNetworkAuthority ==
    /\ "authority-discovery" \in tasks
           => entry = "new_full" /\ role \in {"Authority", "Sentry"}
    /\ (returned = "Ok" /\ entry = "new_full" /\ role \in {"Authority", "Sentry"})
           => "authority-discovery" \in tasks
    /\ ~(pc = "panicked" /\ error = "Due to outer matches! constraint; qed.")

C4_Witness ==
    /\ returned = "Ok"
    /\ entry = "new_full"
    /\ role = "Sentry"
    /\ "authority-discovery" \in tasks
    /\ authority_discovery.value.role = "Sentry"

\* C5 (as claimed): for every role other than Authority no component is
\* handed a keystore handle.
C5_KeystoreOnlyForAuthority ==
    role # "Authority" => keystore_holders = {}

\* C6: new_light starts neither "babe-proposer" nor "grandpa-voter" (it starts
\* no task at all), and a light service returned has exactly the select chain,
\* transaction pool, import queue, finality proof request builder and finality
\* proof provider built.
C6_LightOmitsProductionAndVoter ==
    entry = "new_light" =>
        /\ "babe-proposer" \notin tasks
        /\ "grandpa-voter" \notin tasks
        /\ tasks = {}
        /\ babe_params = None
        /\ authority_discovery = None
        /\ grandpa_config = None
        /\ ~disabled_grandpa_setup
        /\ ros = "none"
        /\ returned = "Ok" =>
               /\ select_chain # None
               /\ transaction_pool # None
               /\ import_queue # None
               /\ fprb # None
               /\ finality_proof_provider

C6_Witness ==
    /\ entry = "new_light"
    /\ role = "Light"
    /\ returned = "Ok"
    /\ import_queue # None

\* C7: in new_full the voter is started only with disable_grandpa unset, the
\* substitute is set up only with it set, never both; a full service returned
\* has exactly the one the flag selects, for every role.
C7_ExactlyOneFinalityMode ==
    entry = "new_full" =>
        /\ "grandpa-voter" \in tasks => ~disable_grandpa
        /\ disabled_grandpa_setup => disable_grandpa
        /\ ~("grandpa-voter" \in tasks /\ disabled_grandpa_setup)
        /\ returned = "Ok" =>
               /\ ("grandpa-voter" \in tasks) <=> ~disable_grandpa
               /\ disabled_grandpa_setup <=> disable_grandpa

C7_Witness ==
    /\ entry = "new_full"
    /\ returned = "Ok"
    /\ disable_grandpa
    /\ disabled_grandpa_setup
    /\ "grandpa-voter" \notin tasks

\* C9 (as claimed): a failure to initialise the ROS bridge, of the runtime
\* init or of starting its services, is logged, starts no bridge task and
\* never makes new_full return an error.
C9_BridgeFailureNeverFatal ==
    ros \in {"init_failed", "start_failed"} =>
        /\ returned # "Err"
        /\ log # {}
        /\ "substrate-ros" \notin tasks

\* C10: a missing select chain makes the closure of with_import_queue and the
\* block production branch return SelectChainRequired, and whenever new_full
\* has returned SelectChainRequired no consensus task has been spawned and no
\* service is returned.
C10_SelectChainRequiredBeforeTasks ==
    /\ \A f \in ImportQueueCalls \cup {"none"} :
           ImportQueueClosure(None, f).err = "SelectChainRequired"
    /\ \A f \in BOOLEAN, ok \in BOOLEAN :
           LET r == BabeBranch("Authority", f, babe_block_import, None, ok)
           IN r.err = "SelectChainRequired" /\ ~r.spawn
    /\ error = "SelectChainRequired" =>
           /\ entry = "new_full"
           /\ pc = "done"
           /\ returned = "Err"
           /\ tasks \cap ConsensusTasks = {}

C10_Witness ==
    /\ error = "SelectChainRequired"
    /\ role = "Authority"
    /\ taken # None
    /\ returned = "Err"

====
